---- MODULE Spec2Model ----
(***************************************************************************)
(* Model of the server core of rnieblesealo/networking101:                 *)
(*   src/src/server.c    the player table (find_player_by_ip,              *)
(*                       ensure_player, set_player_avatar) and its globals *)
(*   src/src/w-helper.c  irand, recvall, sendall                           *)
(*                                                                         *)
(* The functions of server.c take no lock (g_lock is declared and never    *)
(* acquired), so a call of ensure_player or set_player_avatar is modelled  *)
(* as the sequence of its reads and writes, one action each, and the calls *)
(* of several threads interleave at those points. recvall and sendall are  *)
(* modelled one turn of their loop at a time, each turn with every result  *)
(* its recv or send call can have.                                         *)
(*                                                                         *)
(* Specifications:                                                         *)
(*   Spec          NumThreads threads call find_player_by_ip and           *)
(*                 ensure_player concurrently with NumIps identities       *)
(*   SpecCapacity  one thread passes up to MAX_PLAYERS + 1 distinct        *)
(*                 identities to ensure_player                             *)
(*   SpecAvatar    one thread registers and calls set_player_avatar with   *)
(*                 an image drawn from Uploads                             *)
(*   SpecRender    one thread registers and calls set_player_avatar while  *)
(*                 the renderer reads the table                            *)
(*   SpecWire      one thread calls sendall and another recvall on the     *)
(*                 two ends of a connection                                *)
(*   SpecWireFair  SpecWire with both threads scheduled                    *)
(***************************************************************************)
EXTENDS Integers, Sequences, FiniteSets, TLC

\* ------------------------------------------------------------ configuration

MAX_CLIENTS == 32
MAX_PLAYERS == MAX_CLIENTS
MAX_AVATAR_W == 8
MAX_AVATAR_H == 8
RGBA_CHANNEL_COUNT == 4
RGB_CHANNEL_COUNT == 3
WINDOW_W == 500
WINDOW_H == 500
MIN_PLAYER_X_POS == 100
MAX_PLAYER_X_POS == 400
MIN_PLAYER_Y_POS == 100
MAX_PLAYER_Y_POS == 400

\* ------------------------------------------------------------------ bounds

\* threads that call into the player table concurrently
NumThreads == 2
\* distinct identities the concurrent callers pass
NumIps == 2
\* values of rand() explored: 0..MaxRand
MaxRand == 3

\* avatar widths and heights explored: 0..MaxSmallDim, and the three around the maximum
MaxSmallDim == 2
\* channel counts explored: 0..MaxCh
MaxCh == 5
\* source images explored, by the seed of their byte pattern: 0..MaxSeed
MaxSeed == 1

\* bytes passed to sendall and asked of recvall: 0..MaxLen
MaxLen == 3
\* calls interrupted by a signal in one run: 0..MaxInterrupts
MaxInterrupts == 2

Threads == 1..NumThreads
\* identities are nonzero: a zeroed slot holds ip 0
RaceIps == 1..NumIps
\* enough distinct identities to pass one more than the table can hold
AllIps == 1..(MAX_PLAYERS + 1)
\* low values of rand(), and the largest values of a 15-bit and a 31-bit RAND_MAX
RandValues == (0..MaxRand) \cup {32767, 2147483647}

\* the null pointer, for a Player* held as an index into g_players
NULL == -1

\* values of errno: none set, a call interrupted by a signal, a failure of the
\* connection, a failure of a write to the standard error stream
NOERROR == "0"
EINTR == "EINTR"
ECONNRESET == "ECONNRESET"
EBADF == "EBADF"

\* ------------------------------------------------------------ the Player row

\* uint8_t *avatar: the null pointer, or a pointer to an allocated buffer with the
\* buffer's bytes; freed tells that the buffer it points to was passed to free()
NullBuf == [alloc |-> FALSE, freed |-> FALSE, bytes |-> <<>>]

\* a Player whose every byte is zero: static storage, and memset(new_player, 0, ..)
ZeroPlayer ==
  [ip |-> 0, player_id |-> 0, tag |-> <<>>, pos_x |-> 0, pos_y |-> 0,
   avatar |-> NullBuf, w |-> 0, h |-> 0, ch |-> 0,
   connected |-> FALSE, tex_inited |-> FALSE, tex_dirty |-> FALSE]

\* what a caller remembers of a Player that ensure_player returned to it
NoPlayer == [idx |-> NULL, id |-> 0]

\* what the renderer holds before it has read a Player
NoAvatar == [avatar |-> NullBuf, w |-> 0, h |-> 0]

VARIABLES
  g_players,        \* static Player g_players[MAX_PLAYERS]: the slots that hold a nonzero
                    \* byte, with their contents; every other slot is ZeroPlayer
  g_player_count,   \* static size_t g_player_count
  g_next_player_id, \* static uint32_t g_next_player_id
  corrupt,          \* a write fell outside g_players
  pc,               \* each thread's position
  target_ip,        \* each thread's argument target_ip
  p,                \* ensure_player's local p
  new_player,       \* ensure_player's local new_player (new_player_index)
  ret,              \* the Player* the thread's last call returned
  upload,           \* the image a client uploads: av_pixels, av_w, av_h, av_ch
  av,               \* set_player_avatar's arguments av_pixels, av_w, av_h, av_ch, per thread
  av_ok,            \* what the thread's last set_player_avatar returned
  image_ptr,        \* set_player_avatar's local image_buf, per thread
  seen,             \* the avatar, w and h the renderer read last
  known,            \* history: what ensure_player had returned for target_ip when the call began
  passed,           \* history: the identities passed to ensure_player so far
  ensured,          \* history: the Player ensure_player last returned, per identity it
                    \* has returned one for
  last_created_id,  \* history: the player_id given to the Player created last (0: none yet)
  s_pc,             \* the sending thread's position in sendall
  s_buf,            \* sendall's buf, len bytes
  nsent,            \* sendall's nsent
  s_errno,          \* errno of the sending thread
  s_ret,            \* what sendall returned
  s_tick,           \* parity of the number of send() calls made
  s_last,           \* history: how the last send() call ended
  s_frags,          \* history: the send() calls that transferred bytes
  r_pc,             \* the receiving thread's position in recvall
  r_len,            \* recvall's len
  r_buf,            \* recvall's buf, len bytes
  nrecv,            \* recvall's nrecv
  r_errno,          \* errno of the receiving thread
  r_ret,            \* what recvall returned
  r_tick,           \* parity of the number of recv() calls made
  r_last,           \* history: how the last recv() call ended
  r_frags,          \* history: the recv() calls that transferred bytes
  stream,           \* the bytes sent and not yet received, in order
  sender_closed,    \* the sending end has closed the connection
  interrupts        \* the calls interrupted by a signal so far

\* the connection and the two threads that use it
wire == <<s_pc, s_buf, nsent, s_errno, s_ret, s_tick, s_last, s_frags,
          r_pc, r_len, r_buf, nrecv, r_errno, r_ret, r_tick, r_last, r_frags,
          stream, sender_closed, interrupts>>

vars == <<g_players, g_player_count, g_next_player_id, corrupt, pc, target_ip, p,
          new_player, ret, upload, av, av_ok, image_ptr, seen, known, passed, ensured,
          last_created_id, wire>>

globals == <<g_players, g_player_count, g_next_player_id, corrupt>>
history == <<passed, ensured, last_created_id>>
avatars == <<upload, av, av_ok, image_ptr, seen>>
\* the player table and the threads that call into it
table == <<globals, history, avatars, pc, target_ip, p, new_player, ret, known>>

\* ------------------------------------------------------------------ helpers

\* as irand with the left bound a not added
irand_no_offset(a, b, r) == r % (b - a + 1)

\* w-helper.c 8-12 irand: a + rand() % (b - a + 1), r the value rand() returns
irand(a, b, r) == a + (r % (b - a + 1))

Min(a, b) == IF a < b THEN a ELSE b

\* the indices of g_players
Slots == 0..(MAX_PLAYERS - 1)

\* g_players[i]
RowOf(players, i) == IF i \in DOMAIN players THEN players[i] ELSE ZeroPlayer

\* the array after g_players[i] = row
SetRow(players, i, row) ==
  IF row = ZeroPlayer
    THEN [j \in DOMAIN players \ {i} |-> players[j]]
    ELSE (i :> row) @@ players

\* what ensure_player last returned for ip
EnsuredFor(ip) == IF ip \in DOMAIN ensured THEN ensured[ip] ELSE NoPlayer

\* server.c 93-104 find_player_by_ip: the first slot below g_player_count holding
\* target, or NULL
find_player_by_ip(players, count, target) ==
  LET hits == {i \in Slots : i < count /\ RowOf(players, i).ip = target}
  IN IF hits = {} THEN NULL ELSE CHOOSE i \in hits : \A j \in hits : i <= j

\* ------------------------------------------------------------ avatar images

\* byte k of the source image of a seed: seed 0 is the all-zero image, the other
\* seeds give every byte of a pixel and neighbouring pixels different values
PatternByte(seed, k) == (seed * (10 + 7 * k)) % 256

\* a client's image as set_player_avatar's caller hands it over: the REGISTER
\* payload carries width * height * channel_count raw pixel bytes (handle_register
\* is declared at server.c 258 and has no body)
Image(w, h, ch, seed) ==
  [pixels |-> [k \in 1..(w * h * ch) |-> PatternByte(seed, k - 1)],
   w |-> w, h |-> h, ch |-> ch]

Dims == (0..MaxSmallDim) \cup {MAX_AVATAR_W - 1, MAX_AVATAR_W, MAX_AVATAR_W + 1}
Uploads == {Image(w, h, ch, seed) : w \in Dims, h \in Dims, ch \in 0..MaxCh, seed \in 0..MaxSeed}
\* a 1x1 grayscale image
PlainImage == Image(1, 1, 1, 1)
\* what a read past the end of the source buffer may yield
JunkBytes == {0, 171}

\* as clamp_w with the truncation left out
clamp_w_none(w) == w

\* server.c 173-181: if (av_w > MAX_AVATAR_W) av_w = MAX_AVATAR_W; and the same for av_h
clamp_w(w) == IF w > MAX_AVATAR_W THEN MAX_AVATAR_W ELSE w
clamp_h(h) == IF h > MAX_AVATAR_H THEN MAX_AVATAR_H ELSE h

\* av_pixels[k]; a k at or past the end of the buffer reads whatever lies there
av_read(pixels, k, junk) == IF k < Len(pixels) THEN pixels[k + 1] ELSE junk

\* server.c 203: i = y * av_w + x
flat_index(y, x, w) == y * w + x

\* server.c 209-231: the indices of av_pixels read for pixel i, by channel count
pixel_reads(i, ch) ==
  IF ch = RGBA_CHANNEL_COUNT
    THEN {i * RGBA_CHANNEL_COUNT + c : c \in 0..3}
    ELSE IF ch = RGB_CHANNEL_COUNT
      THEN {i * RGB_CHANNEL_COUNT + c : c \in 0..2}
      ELSE {i}

\* server.c 198-231: the indices of av_pixels the two loops read, w and h already
\* clamped
source_reads(w, h, ch) ==
  UNION {pixel_reads(flat_index(y, x, w), ch) : y \in 0..(h - 1), x \in 0..(w - 1)}

\* as rgba_of with the RGB branch leaving alpha 0
rgba_of_rgb_alpha0(pixels, i, ch, junk) ==
  IF ch = RGBA_CHANNEL_COUNT
    THEN <<av_read(pixels, i * RGBA_CHANNEL_COUNT + 0, junk),
           av_read(pixels, i * RGBA_CHANNEL_COUNT + 1, junk),
           av_read(pixels, i * RGBA_CHANNEL_COUNT + 2, junk),
           av_read(pixels, i * RGBA_CHANNEL_COUNT + 3, junk)>>
    ELSE IF ch = RGB_CHANNEL_COUNT
      THEN <<av_read(pixels, i * RGB_CHANNEL_COUNT + 0, junk),
             av_read(pixels, i * RGB_CHANNEL_COUNT + 1, junk),
             av_read(pixels, i * RGB_CHANNEL_COUNT + 2, junk),
             0>>
      ELSE LET v == av_read(pixels, i, junk) IN <<v, v, v, 255>>

\* server.c 206-231: r, g, b, a of pixel i by channel count
rgba_of(pixels, i, ch, junk) ==
  IF ch = RGBA_CHANNEL_COUNT
    THEN <<av_read(pixels, i * RGBA_CHANNEL_COUNT + 0, junk),
           av_read(pixels, i * RGBA_CHANNEL_COUNT + 1, junk),
           av_read(pixels, i * RGBA_CHANNEL_COUNT + 2, junk),
           av_read(pixels, i * RGBA_CHANNEL_COUNT + 3, junk)>>
    ELSE IF ch = RGB_CHANNEL_COUNT
      THEN <<av_read(pixels, i * RGB_CHANNEL_COUNT + 0, junk),
             av_read(pixels, i * RGB_CHANNEL_COUNT + 1, junk),
             av_read(pixels, i * RGB_CHANNEL_COUNT + 2, junk),
             255>>
      ELSE LET v == av_read(pixels, i, junk) IN <<v, v, v, 255>>

\* server.c 186-239: image_buf after the two loops, w and h already clamped: byte
\* i * 4 + c of the buffer is component c of pixel i = y * w + x
image_buf(pixels, w, h, ch, junk) ==
  [k \in 1..(w * h * RGBA_CHANNEL_COUNT) |->
     LET n == (k - 1) \div RGBA_CHANNEL_COUNT
         y == n \div w
         x == n % w
     IN rgba_of(pixels, flat_index(y, x, w), ch, junk)[((k - 1) % RGBA_CHANNEL_COUNT) + 1]]

\* a thread between two calls
AtRest(t) == pc[t] \in {"idle", "e_done", "f_done", "a_done"}

\* the positions of a thread inside set_player_avatar
AvatarPcs == {"a_build", "a_free", "a_avatar", "a_w", "a_h", "a_ch", "a_dirty"}

\* ------------------------------------------------------------------- Init

InitPlayers ==
  /\ g_players = <<>>
  /\ g_player_count = 0
  /\ g_next_player_id = 1
  /\ corrupt = FALSE
  /\ pc = [t \in Threads |-> "idle"]
  /\ target_ip = [t \in Threads |-> 0]
  /\ p = [t \in Threads |-> NULL]
  /\ new_player = [t \in Threads |-> NULL]
  /\ ret = [t \in Threads |-> NULL]
  /\ known = [t \in Threads |-> NoPlayer]
  /\ passed = {}
  /\ ensured = <<>>
  /\ last_created_id = 0
  /\ av = [t \in Threads |-> PlainImage]
  /\ av_ok = [t \in Threads |-> FALSE]
  /\ image_ptr = [t \in Threads |-> NullBuf]
  /\ seen = NoAvatar

\* w-helper.c 16-17, 56-57: no call of sendall or recvall made yet; sendall is to
\* be passed n bytes and recvall asked for m
InitHelpers(n, m) ==
  /\ s_pc = "idle"
  /\ s_buf = [k \in 1..n |-> PatternByte(1, k - 1)]
  /\ nsent = 0
  /\ s_errno = NOERROR
  /\ s_ret = 0
  /\ s_tick = 0
  /\ s_last = "none"
  /\ s_frags = 0
  /\ r_pc = "idle"
  /\ r_len = m
  /\ r_buf = [k \in 1..m |-> 0]
  /\ nrecv = 0
  /\ r_errno = NOERROR
  /\ r_ret = 0
  /\ r_tick = 0
  /\ r_last = "none"
  /\ r_frags = 0
  /\ stream = <<>>
  /\ sender_closed = FALSE
  /\ interrupts = 0

InitTable == InitPlayers /\ InitHelpers(0, 0)

Init == InitTable /\ upload = PlainImage

\* ------------------------------------------------------- find_player_by_ip

\* a thread calls find_player_by_ip(ip)
find_call(t, ip) ==
  /\ AtRest(t)
  /\ pc' = [pc EXCEPT ![t] = "f_run"]
  /\ target_ip' = [target_ip EXCEPT ![t] = ip]
  /\ known' = [known EXCEPT ![t] = EnsuredFor(ip)]
  /\ UNCHANGED <<wire, globals, history, avatars, p, new_player, ret>>

\* server.c 93-104: the scan and the return
find_run(t) ==
  /\ pc[t] = "f_run"
  /\ ret' = [ret EXCEPT ![t] = find_player_by_ip(g_players, g_player_count, target_ip[t])]
  /\ pc' = [pc EXCEPT ![t] = "f_done"]
  /\ UNCHANGED <<wire, globals, history, avatars, target_ip, p, new_player, known>>

\* ----------------------------------------------------------- ensure_player

\* a thread calls ensure_player(ip)
ensure_call(t, ip) ==
  /\ AtRest(t)
  /\ pc' = [pc EXCEPT ![t] = "e_find"]
  /\ target_ip' = [target_ip EXCEPT ![t] = ip]
  /\ p' = [p EXCEPT ![t] = NULL]
  /\ new_player' = [new_player EXCEPT ![t] = NULL]
  /\ known' = [known EXCEPT ![t] = EnsuredFor(ip)]
  /\ passed' = passed \cup {ip}
  /\ UNCHANGED <<wire, globals, avatars, ret, ensured, last_created_id>>

\* server.c 114-120: p = find_player_by_ip(target_ip); if (p) return p;
ensure_find(t) ==
  /\ pc[t] = "e_find"
  /\ LET found == find_player_by_ip(g_players, g_player_count, target_ip[t])
     IN /\ p' = [p EXCEPT ![t] = found]
        /\ pc' = [pc EXCEPT ![t] = IF found # NULL THEN "e_ret" ELSE "e_check"]
  /\ UNCHANGED <<wire, globals, history, avatars, target_ip, new_player, ret, known>>

\* as ensure_check with the capacity test dropped and the row appended at
\* g_player_count++
ensure_check_unguarded(t) ==
  /\ pc[t] = "e_check"
  /\ new_player' = [new_player EXCEPT ![t] = g_player_count]
  /\ g_player_count' = g_player_count + 1
  /\ pc' = [pc EXCEPT ![t] = "e_clear"]
  /\ UNCHANGED <<wire, g_players, g_next_player_id, corrupt, history, avatars, target_ip, p, ret,
                 known>>

\* as ensure_check with the row appended at g_player_count++ and the capacity
\* test one too late: g_player_count > MAX_PLAYERS
ensure_check_late_guard(t) ==
  /\ pc[t] = "e_check"
  /\ IF g_player_count > MAX_PLAYERS
       THEN /\ pc' = [pc EXCEPT ![t] = "e_ret"]
            /\ UNCHANGED <<new_player, g_player_count>>
       ELSE /\ new_player' = [new_player EXCEPT ![t] = g_player_count]
            /\ g_player_count' = g_player_count + 1
            /\ pc' = [pc EXCEPT ![t] = "e_clear"]
  /\ UNCHANGED <<wire, g_players, g_next_player_id, corrupt, history, avatars, target_ip, p, ret,
                 known>>

\* server.c 125-132: if (g_player_count >= MAX_PLAYERS) return NULL;
\* new_player_index = g_player_count + 1; new_player = &g_players[new_player_index];
ensure_check(t) ==
  /\ pc[t] = "e_check"
  /\ IF g_player_count >= MAX_PLAYERS
       THEN /\ pc' = [pc EXCEPT ![t] = "e_ret"]
            /\ UNCHANGED new_player
       ELSE /\ new_player' = [new_player EXCEPT ![t] = g_player_count + 1]
            /\ pc' = [pc EXCEPT ![t] = "e_clear"]
  /\ UNCHANGED <<wire, globals, history, avatars, target_ip, p, ret, known>>

\* server.c 135: memset(new_player, 0, sizeof(*new_player))
ensure_clear(t) ==
  /\ pc[t] = "e_clear"
  /\ IF new_player[t] \in Slots
       THEN /\ g_players' = SetRow(g_players, new_player[t], ZeroPlayer)
            /\ UNCHANGED corrupt
       ELSE /\ corrupt' = TRUE
            /\ UNCHANGED g_players
  /\ pc' = [pc EXCEPT ![t] = "e_fill"]
  /\ UNCHANGED <<wire, g_player_count, g_next_player_id, history, avatars, target_ip, p,
                 new_player, ret, known>>

\* server.c 140: new_player_id = g_next_player_id + 1 (uint32_t; no statement
\* assigns g_next_player_id, so the sum stays far from the wrap at 2^32)
new_player_id == g_next_player_id + 1

\* server.c 138-149: the fields of the new Player; rx, ry are what rand() returns
ensure_fill(t, rx, ry) ==
  /\ pc[t] = "e_fill"
  /\ IF new_player[t] \in Slots
       THEN /\ g_players' =
                 SetRow(g_players, new_player[t],
                    [RowOf(g_players, new_player[t]) EXCEPT
                              !.ip = target_ip[t],
                              !.player_id = new_player_id,
                              !.pos_x = irand(MIN_PLAYER_X_POS, WINDOW_W - MAX_PLAYER_X_POS, rx),
                              !.pos_y = irand(MIN_PLAYER_Y_POS, WINDOW_H - MAX_PLAYER_Y_POS, ry),
                              !.connected = FALSE,
                              !.tex_inited = FALSE,
                              !.tex_dirty = FALSE])
            /\ UNCHANGED corrupt
       ELSE /\ corrupt' = TRUE
            /\ UNCHANGED g_players
  /\ last_created_id' = new_player_id
  /\ pc' = [pc EXCEPT ![t] = "e_ret"]
  /\ UNCHANGED <<wire, g_player_count, g_next_player_id, passed, ensured, avatars, target_ip,
                 p, new_player, ret, known>>

\* server.c 119, 127, 151: return p; return NULL; return new_player;
ensure_return(t) ==
  /\ pc[t] = "e_ret"
  /\ LET r == IF p[t] # NULL THEN p[t] ELSE new_player[t]
     IN /\ ret' = [ret EXCEPT ![t] = r]
        /\ ensured' =
             IF r \in Slots
               THEN (target_ip[t] :> [idx |-> r, id |-> RowOf(g_players, r).player_id])
                      @@ ensured
               ELSE ensured
  /\ pc' = [pc EXCEPT ![t] = "e_done"]
  /\ UNCHANGED <<wire, globals, passed, last_created_id, avatars, target_ip, p, new_player, known>>

\* one step of a call of ensure_player that thread t is in
ensure_step(t) ==
  \/ ensure_find(t)
  \/ ensure_check(t)
  \/ ensure_clear(t)
  \/ \E rx \in RandValues, ry \in RandValues : ensure_fill(t, rx, ry)
  \/ ensure_return(t)

\* -------------------------------------------------------- set_player_avatar

\* a thread calls set_player_avatar(target_player, ..) on the Player it holds
avatar_call(t, img) ==
  /\ AtRest(t)
  /\ ret[t] \in Slots
  /\ av' = [av EXCEPT ![t] = img]
  /\ pc' = [pc EXCEPT ![t] = "a_build"]
  /\ UNCHANGED <<wire, globals, history, upload, av_ok, image_ptr, seen, target_ip, p,
                 new_player, ret, known>>

\* target_player->field = value, the other fields as they are
SetField(t, row) == g_players' = SetRow(g_players, ret[t], row)

\* as avatar_build with the old avatar released before the new one is allocated
avatar_build_free_first(t, malloc_ok, junk) ==
  /\ pc[t] = "a_build"
  /\ LET av_w == clamp_w(av[t].w)
         av_h == clamp_h(av[t].h)
         old == RowOf(g_players, ret[t])
     IN /\ SetField(t, [old EXCEPT !.avatar.freed = old.avatar.alloc])
        /\ IF malloc_ok
             THEN /\ image_ptr' =
                       [image_ptr EXCEPT ![t] =
                          [alloc |-> TRUE, freed |-> FALSE,
                           bytes |-> image_buf(av[t].pixels, av_w, av_h, av[t].ch, junk)]]
                  /\ pc' = [pc EXCEPT ![t] = "a_avatar"]
                  /\ UNCHANGED av_ok
             ELSE /\ av_ok' = [av_ok EXCEPT ![t] = FALSE]
                  /\ pc' = [pc EXCEPT ![t] = "a_done"]
                  /\ UNCHANGED image_ptr
  /\ UNCHANGED <<wire, g_player_count, g_next_player_id, corrupt, history, upload, av, seen,
                 target_ip, p, new_player, ret, known>>

\* server.c 173-239: the clamping, malloc (malloc_ok: it returned a buffer), return
\* false when it did not, and the two loops that fill image_buf
avatar_build(t, malloc_ok, junk) ==
  /\ pc[t] = "a_build"
  /\ LET av_w == clamp_w(av[t].w)
         av_h == clamp_h(av[t].h)
     IN IF malloc_ok
          THEN /\ image_ptr' =
                    [image_ptr EXCEPT ![t] =
                       [alloc |-> TRUE, freed |-> FALSE,
                        bytes |-> image_buf(av[t].pixels, av_w, av_h, av[t].ch, junk)]]
               /\ pc' = [pc EXCEPT ![t] = "a_free"]
               /\ UNCHANGED av_ok
          ELSE /\ av_ok' = [av_ok EXCEPT ![t] = FALSE]
               /\ pc' = [pc EXCEPT ![t] = "a_done"]
               /\ UNCHANGED image_ptr
  /\ UNCHANGED <<wire, globals, history, upload, av, seen, target_ip, p, new_player, ret, known>>

\* server.c 241: free(target_player->avatar); the field keeps the pointer, and
\* free(NULL) does nothing
avatar_free(t) ==
  /\ pc[t] = "a_free"
  /\ LET old == RowOf(g_players, ret[t])
     IN SetField(t, [old EXCEPT !.avatar.freed = old.avatar.alloc])
  /\ pc' = [pc EXCEPT ![t] = "a_avatar"]
  /\ UNCHANGED <<wire, g_player_count, g_next_player_id, corrupt, history, avatars,
                 target_ip, p, new_player, ret, known>>

\* server.c 243: target_player->avatar = image_buf
avatar_store_avatar(t) ==
  /\ pc[t] = "a_avatar"
  /\ SetField(t, [RowOf(g_players, ret[t]) EXCEPT !.avatar = image_ptr[t]])
  /\ pc' = [pc EXCEPT ![t] = "a_w"]
  /\ UNCHANGED <<wire, g_player_count, g_next_player_id, corrupt, history, avatars,
                 target_ip, p, new_player, ret, known>>

\* server.c 244: target_player->w = av_w
avatar_store_w(t) ==
  /\ pc[t] = "a_w"
  /\ SetField(t, [RowOf(g_players, ret[t]) EXCEPT !.w = clamp_w(av[t].w)])
  /\ pc' = [pc EXCEPT ![t] = "a_h"]
  /\ UNCHANGED <<wire, g_player_count, g_next_player_id, corrupt, history, avatars,
                 target_ip, p, new_player, ret, known>>

\* server.c 245: target_player->h = av_h
avatar_store_h(t) ==
  /\ pc[t] = "a_h"
  /\ SetField(t, [RowOf(g_players, ret[t]) EXCEPT !.h = clamp_h(av[t].h)])
  /\ pc' = [pc EXCEPT ![t] = "a_ch"]
  /\ UNCHANGED <<wire, g_player_count, g_next_player_id, corrupt, history, avatars,
                 target_ip, p, new_player, ret, known>>

\* server.c 246: target_player->ch = RGBA_CHANNEL_COUNT
avatar_store_ch(t) ==
  /\ pc[t] = "a_ch"
  /\ SetField(t, [RowOf(g_players, ret[t]) EXCEPT !.ch = RGBA_CHANNEL_COUNT])
  /\ pc' = [pc EXCEPT ![t] = "a_dirty"]
  /\ UNCHANGED <<wire, g_player_count, g_next_player_id, corrupt, history, avatars,
                 target_ip, p, new_player, ret, known>>

\* server.c 247-250: target_player->tex_dirty = true; return true;
avatar_store_dirty(t) ==
  /\ pc[t] = "a_dirty"
  /\ SetField(t, [RowOf(g_players, ret[t]) EXCEPT !.tex_dirty = TRUE])
  /\ av_ok' = [av_ok EXCEPT ![t] = TRUE]
  /\ pc' = [pc EXCEPT ![t] = "a_done"]
  /\ UNCHANGED <<wire, g_player_count, g_next_player_id, corrupt, history, upload, av,
                 image_ptr, seen, target_ip, p, new_player, ret, known>>

\* one step of a call of set_player_avatar that thread t is in
avatar_step(t) ==
  \/ \E malloc_ok \in BOOLEAN, junk \in JunkBytes : avatar_build(t, malloc_ok, junk)
  \/ avatar_free(t)
  \/ avatar_store_avatar(t)
  \/ avatar_store_w(t)
  \/ avatar_store_h(t)
  \/ avatar_store_ch(t)
  \/ avatar_store_dirty(t)

\* ------------------------------------------------------ sendall and recvall

\* what a call of send(fd, curr + nsent, remaining, 0) may return: nbytes from 0 to
\* remaining, or -1 with errno set
SendResults(remaining) ==
  {[nbytes |-> k, err |-> NOERROR] : k \in 0..remaining}
    \cup {[nbytes |-> -1, err |-> e] : e \in {EINTR, ECONNRESET}}

\* what a call of recv(fd, curr + nrecv, remaining, 0) may return: the first k of
\* the bytes in flight, 0 once the sender has closed and nothing is in flight, or
\* -1 with errno set
RecvResults(remaining) ==
  {[nbytes |-> k, err |-> NOERROR] : k \in 1..Min(remaining, Len(stream))}
    \cup (IF stream = <<>> /\ sender_closed THEN {[nbytes |-> 0, err |-> NOERROR]} ELSE {})
    \cup {[nbytes |-> -1, err |-> e] : e \in {EINTR, ECONNRESET}}

\* errno after perror(): as it was, or the error of the write to the standard error
\* stream when that write fails (the stream is closed, or a signal interrupts it)
PerrorResults(e) == {e, EBADF, EINTR}

\* how many of the calls a step makes are interrupted by a signal
Interrupted(res, perr) ==
  (IF res.nbytes < 0 /\ res.err = EINTR THEN 1 ELSE 0)
    + (IF res.nbytes < 0 /\ perr = EINTR /\ res.err # EINTR THEN 1 ELSE 0)

\* how a call of send or recv ended
Ending(res) ==
  IF res.nbytes > 0 THEN "data"
  ELSE IF res.nbytes = 0 THEN "zero"
  ELSE IF res.err = EINTR THEN "eintr" ELSE "fail"

\* w-helper.c 61: the k bytes send takes from curr + nsent
send_slice(buf, sent, k) == SubSeq(buf, sent + 1, sent + k)

\* as recv_store with the bytes placed at curr, not at curr + nrecv
recv_store_at_curr(buf, recvd, frag) ==
  [k \in 1..Len(buf) |-> IF k <= Len(frag) THEN frag[k] ELSE buf[k]]

\* w-helper.c 24: buf after recv has placed frag at curr + nrecv
recv_store(buf, recvd, frag) ==
  [k \in 1..Len(buf) |->
     IF recvd < k /\ k <= recvd + Len(frag) THEN frag[k - recvd] ELSE buf[k]]

\* the sending thread calls sendall(fd, s_buf, Len(s_buf))
sendall_call ==
  /\ s_pc = "idle"
  /\ ~sender_closed
  /\ s_pc' = "s_loop"
  /\ nsent' = 0
  /\ UNCHANGED <<table, s_buf, s_errno, s_ret, s_tick, s_last, s_frags,
                 r_pc, r_len, r_buf, nrecv, r_errno, r_ret, r_tick, r_last, r_frags,
                 stream, sender_closed, interrupts>>

\* w-helper.c 59-77: one turn of the loop, res what send returns
sendall_iter(res) ==
  /\ s_pc = "s_loop"
  /\ nsent < Len(s_buf)
  /\ interrupts + Interrupted(res, NOERROR) <= MaxInterrupts
  /\ LET e == IF res.nbytes < 0 THEN res.err ELSE s_errno
     IN /\ s_errno' = e
        /\ IF res.nbytes <= 0
             THEN /\ IF e = EINTR
                       THEN UNCHANGED <<s_pc, s_ret>>
                       ELSE s_pc' = "s_done" /\ s_ret' = -1
                  /\ UNCHANGED <<nsent, stream, s_frags>>
             ELSE /\ nsent' = nsent + res.nbytes
                  /\ stream' = stream \o send_slice(s_buf, nsent, res.nbytes)
                  /\ s_frags' = s_frags + 1
                  /\ UNCHANGED <<s_pc, s_ret>>
  /\ s_tick' = 1 - s_tick
  /\ s_last' = Ending(res)
  /\ interrupts' = interrupts + Interrupted(res, NOERROR)
  /\ UNCHANGED <<table, s_buf, r_pc, r_len, r_buf, nrecv, r_errno, r_ret, r_tick, r_last,
                 r_frags, sender_closed>>

\* w-helper.c 59, 79: the loop ends with nsent = len; return (ssize_t)nsent
sendall_return ==
  /\ s_pc = "s_loop"
  /\ ~(nsent < Len(s_buf))
  /\ s_ret' = nsent
  /\ s_pc' = "s_done"
  /\ UNCHANGED <<table, s_buf, nsent, s_errno, s_tick, s_last, s_frags,
                 r_pc, r_len, r_buf, nrecv, r_errno, r_ret, r_tick, r_last, r_frags,
                 stream, sender_closed, interrupts>>

\* one step of the call of sendall
sendall_step ==
  \/ \E res \in SendResults(Len(s_buf) - nsent) : sendall_iter(res)
  \/ sendall_return

\* the sending end closes the connection, before or after its call of sendall
sender_close ==
  /\ s_pc # "s_loop"
  /\ ~sender_closed
  /\ sender_closed' = TRUE
  /\ UNCHANGED <<table, s_pc, s_buf, nsent, s_errno, s_ret, s_tick, s_last, s_frags,
                 r_pc, r_len, r_buf, nrecv, r_errno, r_ret, r_tick, r_last, r_frags,
                 stream, interrupts>>

\* the receiving thread calls recvall(fd, r_buf, r_len)
recvall_call ==
  /\ r_pc = "idle"
  /\ r_pc' = "r_loop"
  /\ nrecv' = 0
  /\ UNCHANGED <<table, s_pc, s_buf, nsent, s_errno, s_ret, s_tick, s_last, s_frags,
                 r_len, r_buf, r_errno, r_ret, r_tick, r_last, r_frags,
                 stream, sender_closed, interrupts>>

\* as recvall_iter with the count of the bytes read so far returned when recv
\* returns 0
recvall_iter_short(res, perr) ==
  /\ r_pc = "r_loop"
  /\ nrecv < r_len
  /\ interrupts + Interrupted(res, perr) <= MaxInterrupts
  /\ IF res.nbytes = 0
       THEN /\ r_pc' = "r_done" /\ r_ret' = nrecv
            /\ UNCHANGED <<nrecv, r_buf, stream, r_errno, r_frags>>
       ELSE IF res.nbytes < 0
         THEN /\ r_errno' = perr
              /\ IF perr = EINTR
                   THEN UNCHANGED <<r_pc, r_ret>>
                   ELSE r_pc' = "r_done" /\ r_ret' = -1
              /\ UNCHANGED <<nrecv, r_buf, stream, r_frags>>
         ELSE /\ nrecv' = nrecv + res.nbytes
              /\ r_buf' = recv_store(r_buf, nrecv, SubSeq(stream, 1, res.nbytes))
              /\ stream' = SubSeq(stream, res.nbytes + 1, Len(stream))
              /\ r_frags' = r_frags + 1
              /\ UNCHANGED <<r_pc, r_ret, r_errno>>
  /\ r_tick' = 1 - r_tick
  /\ r_last' = Ending(res)
  /\ interrupts' = interrupts + Interrupted(res, perr)
  /\ UNCHANGED <<table, s_pc, s_buf, nsent, s_errno, s_ret, s_tick, s_last, s_frags,
                 r_len, sender_closed>>

\* w-helper.c 19-49: one turn of the loop, res what recv returns and perr the
\* errno left by perror("server: recvall") at line 34, which runs before errno is
\* tested at line 37
recvall_iter(res, perr) ==
  /\ r_pc = "r_loop"
  /\ nrecv < r_len
  /\ interrupts + Interrupted(res, perr) <= MaxInterrupts
  /\ IF res.nbytes = 0
       THEN /\ r_pc' = "r_done" /\ r_ret' = 0
            /\ UNCHANGED <<nrecv, r_buf, stream, r_errno, r_frags>>
       ELSE IF res.nbytes < 0
         THEN /\ r_errno' = perr
              /\ IF perr = EINTR
                   THEN UNCHANGED <<r_pc, r_ret>>
                   ELSE r_pc' = "r_done" /\ r_ret' = -1
              /\ UNCHANGED <<nrecv, r_buf, stream, r_frags>>
         ELSE /\ nrecv' = nrecv + res.nbytes
              /\ r_buf' = recv_store(r_buf, nrecv, SubSeq(stream, 1, res.nbytes))
              /\ stream' = SubSeq(stream, res.nbytes + 1, Len(stream))
              /\ r_frags' = r_frags + 1
              /\ UNCHANGED <<r_pc, r_ret, r_errno>>
  /\ r_tick' = 1 - r_tick
  /\ r_last' = Ending(res)
  /\ interrupts' = interrupts + Interrupted(res, perr)
  /\ UNCHANGED <<table, s_pc, s_buf, nsent, s_errno, s_ret, s_tick, s_last, s_frags,
                 r_len, sender_closed>>

\* w-helper.c 19, 51: the loop ends with nrecv = len; return (ssize_t)nrecv
recvall_return ==
  /\ r_pc = "r_loop"
  /\ ~(nrecv < r_len)
  /\ r_ret' = nrecv
  /\ r_pc' = "r_done"
  /\ UNCHANGED <<table, s_pc, s_buf, nsent, s_errno, s_ret, s_tick, s_last, s_frags,
                 r_len, r_buf, nrecv, r_errno, r_tick, r_last, r_frags,
                 stream, sender_closed, interrupts>>

\* one step of the call of recvall; perror runs only when recv has failed
recvall_step ==
  \/ \E res \in RecvResults(r_len - nrecv) :
       \E perr \in (IF res.nbytes < 0 THEN PerrorResults(res.err) ELSE {NOERROR}) :
         recvall_iter(res, perr)
  \/ recvall_return

\* ------------------------------------------------------------ the renderer

\* The rendering collaborator (render_scene, declared at server.c 287) reads a
\* Player's avatar buffer and dimensions from the table. It is given the
\* most a reader can have: it reads the three fields in one step.
render_scene ==
  /\ \E i \in DOMAIN g_players :
       seen' = [avatar |-> g_players[i].avatar, w |-> g_players[i].w, h |-> g_players[i].h]
  /\ UNCHANGED <<wire, globals, history, upload, av, av_ok, image_ptr, pc, target_ip, p,
                 new_player, ret, known>>

\* ------------------------------------------------------------ specifications

\* NumThreads threads call find_player_by_ip and ensure_player with NumIps identities
Next ==
  \E t \in Threads :
    \/ \E ip \in RaceIps : ensure_call(t, ip)
    \/ ensure_step(t)
    \/ \E ip \in RaceIps : find_call(t, ip)
    \/ find_run(t)

Spec == Init /\ [][Next]_vars

\* One thread passes identities to ensure_player, each either passed before or the
\* next new one (the code compares identities for equality only), up to one more
\* than MAX_PLAYERS distinct identities.
NextIps == {ip \in AllIps : ip <= Cardinality(passed) + 1}

NextCapacity ==
  \/ \E ip \in NextIps : ensure_call(1, ip)
  \/ ensure_step(1)

SpecCapacity == Init /\ [][NextCapacity]_vars

\* One thread registers one identity and sets its avatar: the image drawn at the
\* start, or the plain image, each call with either outcome of malloc.
InitAvatar == InitTable /\ upload \in Uploads

NextAvatar ==
  \/ ensure_call(1, 1)
  \/ ensure_step(1)
  \/ \E img \in {upload, PlainImage} : avatar_call(1, img)
  \/ avatar_step(1)

SpecAvatar == InitAvatar /\ [][NextAvatar]_vars

\* One thread registers one identity and sets its avatar, step by step, while the
\* renderer reads the table.
InitRender == InitTable /\ upload = Image(2, 1, RGB_CHANNEL_COUNT, 1)

NextRender ==
  \/ ensure_call(1, 1)
  \/ ensure_step(1)
  \/ \E img \in {upload, PlainImage} : avatar_call(1, img)
  \/ avatar_step(1)
  \/ render_scene

SpecRender == InitRender /\ [][NextRender]_vars

\* One thread sends s_buf with sendall and another asks recvall for r_len bytes of
\* the same connection; every call of send and recv ends in one of the ways it can.
InitWire ==
  /\ InitPlayers
  /\ upload = PlainImage
  /\ \E n \in 0..MaxLen, m \in 0..MaxLen : InitHelpers(n, m)

NextWire ==
  \/ sendall_call
  \/ sendall_step
  \/ sender_close
  \/ recvall_call
  \/ recvall_step

SpecWire == InitWire /\ [][NextWire]_vars

\* The same, with both threads scheduled: a thread inside sendall or recvall
\* makes its next call. At most MaxInterrupts calls are interrupted.
SpecWireFair == SpecWire /\ WF_vars(sendall_step) /\ WF_vars(recvall_step)

\* ------------------------------------------------------------------ claims

\* the positions of a thread inside ensure_player
EnsurePcs == {"e_find", "e_check", "e_clear", "e_fill", "e_ret"}

\* the rows the table holds: the slots below g_player_count, which are the slots
\* find_player_by_ip looks at
TableRows == {i \in Slots : i < g_player_count}

\* thread t takes a step of the call of ensure_player it is in
EnsureStepOf(t) == pc[t] \in EnsurePcs /\ pc'[t] # pc[t]

\* threads whose ensure_player(ip) has returned and began before any ensure_player(ip)
\* had returned: two of them ran concurrently
FirstCallers(ip) ==
  {t \in Threads : pc[t] = "e_done" /\ target_ip[t] = ip /\ known[t] = NoPlayer}

\* C1: when two or more concurrent ensure_player calls with the same, not yet
\* registered identity have returned, the table holds exactly one row for that
\* identity and every caller got a Player with the same player_id.
C1_ConcurrentEnsureOneRow ==
  \A ip \in RaceIps :
    Cardinality(FirstCallers(ip)) >= 2 =>
      /\ Cardinality({i \in TableRows : RowOf(g_players, i).ip = ip}) = 1
      /\ \A t \in FirstCallers(ip) : ret[t] \in Slots
      /\ \A t1, t2 \in FirstCallers(ip) :
           RowOf(g_players, ret[t1]).player_id = RowOf(g_players, ret[t2]).player_id

\* C2: a find_player_by_ip(identity) that begins after ensure_player(identity) has
\* returned a Player returns that same Player, never not-found.
C2_FindAfterEnsure ==
  [][\A t \in Threads :
       (pc[t] = "f_run" /\ pc'[t] = "f_done" /\ known[t] # NoPlayer)
         => ret'[t] = known[t].idx]_vars

\* C3: every newly created Player gets a player_id strictly greater than the
\* player_id of every Player created before it.
C3_PlayerIdsIncrease ==
  [][\A t \in Threads :
       (pc[t] = "e_fill" /\ pc'[t] = "e_ret" /\ new_player[t] \in Slots)
         => RowOf(g_players', new_player[t]).player_id > last_created_id]_vars

\* C4: once MAX_PLAYERS distinct identities have been passed to ensure_player, a
\* call with one more distinct identity changes no row, does not grow the table
\* and returns NULL.
C4_FullTableRejects ==
  [][\A t \in Threads :
       (/\ EnsureStepOf(t)
        /\ known[t] = NoPlayer
        /\ Cardinality(passed \ {target_ip[t]}) >= MAX_PLAYERS)
         => /\ g_players' = g_players
            /\ g_player_count' = g_player_count
            /\ (pc'[t] = "e_done" => ret'[t] = NULL)]_vars

\* C5: in every reachable state the number of rows the table holds,
\* g_player_count, is at most MAX_PLAYERS.
C5_CountAtMostMax == g_player_count <= MAX_PLAYERS

\* C5 witness: one more than MAX_PLAYERS distinct identities have been passed to
\* ensure_player and the last call has returned.
C5_Witness ==
  /\ Cardinality(passed) = MAX_PLAYERS + 1
  /\ pc[1] = "e_done"
  /\ target_ip[1] = MAX_PLAYERS + 1

\* C6: an ensure_player(identity) that begins after ensure_player(identity) has
\* returned a Player does not modify that Player's row, does not grow the table,
\* and returns that row with the same player_id.
C6_ReEnsureReusesRow ==
  [][\A t \in Threads :
       (EnsureStepOf(t) /\ known[t] # NoPlayer)
         => /\ RowOf(g_players', known[t].idx) = RowOf(g_players, known[t].idx)
            /\ g_player_count' = g_player_count
            /\ (pc'[t] = "e_done" =>
                  /\ ret'[t] = known[t].idx
                  /\ RowOf(g_players', ret'[t]).player_id = known[t].id)]_vars

\* C7: ensure_player called with a new identity leaves the row of every Player
\* created before for another identity unchanged.
C7_NewIdentityKeepsRows ==
  [][\A t \in Threads :
       (EnsureStepOf(t) /\ known[t] = NoPlayer)
         => \A ip \in DOMAIN ensured \ {target_ip[t]} :
              RowOf(g_players', ensured[ip].idx) = RowOf(g_players, ensured[ip].idx)]_vars

\* the configured rectangle
InRectangle(row) ==
  /\ MIN_PLAYER_X_POS <= row.pos_x /\ row.pos_x <= MAX_PLAYER_X_POS
  /\ MIN_PLAYER_Y_POS <= row.pos_y /\ row.pos_y <= MAX_PLAYER_Y_POS

\* C8: the position ensure_player assigns to a Player it creates is inside the
\* configured rectangle, whatever rand() returns.
C8_NewPlayerInRectangle ==
  [][\A t \in Threads :
       (pc[t] = "e_fill" /\ pc'[t] = "e_ret" /\ new_player[t] \in Slots)
         => InRectangle(RowOf(g_players', new_player[t]))]_vars

\* C8 witness: a thread has just filled in the Player it created, and the row holds
\* the identity and a position.
C8_Witness ==
  \E t \in Threads :
    /\ pc[t] = "e_ret"
    /\ new_player[t] \in Slots
    /\ RowOf(g_players, new_player[t]).ip = target_ip[t]
    /\ RowOf(g_players, new_player[t]).pos_x = MIN_PLAYER_X_POS
    /\ RowOf(g_players, new_player[t]).pos_y = MIN_PLAYER_Y_POS

\* the single thread's set_player_avatar has returned true
AvatarSet == pc[1] = "a_done" /\ av_ok[1] /\ ret[1] \in Slots

C10_StoredDimensions ==
  AvatarSet =>
    LET row == RowOf(g_players, ret[1])
    IN /\ row.w = Min(av[1].w, 8)
       /\ row.h = Min(av[1].h, 8)
       /\ row.ch = 4
       /\ row.avatar.alloc
       /\ Len(row.avatar.bytes) = Min(av[1].w, 8) * Min(av[1].h, 8) * 4

\* C10 witness: a 9 wide, 2 high image of 5 channels was stored 8 wide in 64 bytes
C10_Witness ==
  /\ AvatarSet
  /\ av[1].w = 9 /\ av[1].h = 2 /\ av[1].ch = 5
  /\ RowOf(g_players, ret[1]).w = 8
  /\ Len(RowOf(g_players, ret[1]).avatar.bytes) = 64

\* the single thread's set_player_avatar has filled image_buf: the loops have read
\* the source
AvatarBuilt == pc[1] \in (AvatarPcs \ {"a_build"}) \/ (pc[1] = "a_done" /\ av_ok[1])

\* C11: for every width, height and channel count, set_player_avatar reads the
\* source buffer only at indices below width * height * channel_count.
C11_ReadsInsideSource ==
  AvatarBuilt =>
    \A k \in source_reads(clamp_w(av[1].w), clamp_h(av[1].h), av[1].ch) :
      k < av[1].w * av[1].h * av[1].ch

\* C12: when malloc fails, set_player_avatar returns false and leaves the Player's
\* avatar, width, height, channel count and dirty flag as they were.
C12_FailedAllocationKeepsAvatar ==
  [][(pc[1] = "a_build" /\ pc'[1] = "a_done")
       => /\ ~av_ok'[1]
          /\ LET old == RowOf(g_players, ret[1])
                 new == RowOf(g_players', ret[1])
             IN /\ new.avatar = old.avatar
                /\ new.w = old.w /\ new.h = old.h /\ new.ch = old.ch
                /\ new.tex_dirty = old.tex_dirty]_vars

\* C12 witness: a call has returned false on a Player that holds the avatar an
\* earlier call stored.
C12_Witness ==
  /\ pc[1] = "a_done" /\ ~av_ok[1] /\ ret[1] \in Slots
  /\ RowOf(g_players, ret[1]).avatar.alloc
  /\ ~RowOf(g_players, ret[1]).avatar.freed
  /\ RowOf(g_players, ret[1]).tex_dirty
  /\ RowOf(g_players, ret[1]).ch = RGBA_CHANNEL_COUNT

\* C18: when the input width exceeds the maximum, the stored pixel at column x,
\* row y (x < 8, y < min(height, 8)) is the conversion of the source pixel at column
\* x, row y of the image of the original width (for an image that has pixels: a
\* channel count of at least 1).
C18_WideImageIsCropped ==
  (AvatarSet /\ av[1].w > MAX_AVATAR_W /\ av[1].ch >= 1) =>
    LET out == RowOf(g_players, ret[1]).avatar.bytes
    IN \A y \in 0..(Min(av[1].h, MAX_AVATAR_H) - 1), x \in 0..(MAX_AVATAR_W - 1) :
         \A c \in 1..4 :
           out[(y * MAX_AVATAR_W + x) * 4 + c]
             = rgba_of(av[1].pixels, y * av[1].w + x, av[1].ch, 0)[c]

\* C17: while a thread runs set_player_avatar on a Player, what the renderer reads
\* of that Player is never a pointer to a released buffer, and never a width and
\* height other than those of the buffer it reads.
C17_ReaderSeesConsistentAvatar ==
  /\ ~seen.avatar.freed
  /\ seen.avatar.alloc => Len(seen.avatar.bytes) = seen.w * seen.h * RGBA_CHANNEL_COUNT

\* C19: in every state reachable by ensure_player calls, the slot of g_players
\* that ensure_player clears and writes has an index from 0 to MAX_PLAYERS - 1: no
\* write falls outside the array.
C19_WrittenSlotInsideTable ==
  /\ ~corrupt
  /\ \A t \in Threads : pc[t] \in {"e_clear", "e_fill"} => new_player[t] \in Slots

\* C19 witness: after MAX_PLAYERS identities were registered, the call for one more
\* has cleared its slot and is about to fill it.
C19_Witness ==
  /\ Cardinality(passed) = MAX_PLAYERS + 1
  /\ target_ip[1] = MAX_PLAYERS + 1
  /\ pc[1] = "e_fill"
  /\ new_player[1] \in Slots
  /\ RowOf(g_players, new_player[1]) = ZeroPlayer

\* sendall has returned len, recvall has returned len, for the same len
BothSucceeded ==
  /\ s_pc = "s_done" /\ s_ret = Len(s_buf)
  /\ r_pc = "r_done" /\ r_ret = r_len
  /\ r_len = Len(s_buf)

\* C13: when sendall of len bytes and recvall of len bytes on the other end both
\* succeed, the receive buffer holds the sent bytes in the same order, whatever
\* number of bytes each send and recv call transferred.
C13_RoundTrip == BothSucceeded => r_buf = s_buf

\* C13 witness: MaxLen bytes went through in more than one send and more than one
\* recv, with a call interrupted on the way.
C13_Witness ==
  /\ BothSucceeded
  /\ r_len = MaxLen
  /\ s_frags >= 2 /\ r_frags >= 2
  /\ interrupts >= 1
  /\ r_buf[1] # r_buf[2]

C15_OutcomesDistinguishable ==
  r_pc = "r_done" =>
    /\ r_ret = 0 => r_last = "zero"
    /\ r_ret = r_len => nrecv = r_len
    /\ r_ret = -1 => r_last = "fail"

\* C16: a send or recv call that fails with the interrupted error does not make
\* sendall or recvall return: the loop goes on with the same count of bytes
\* transferred, the same buffer and the same bytes in flight.
C16_InterruptedCallIsRetried ==
  [][/\ (s_tick' # s_tick /\ s_last' = "eintr")
          => (s_pc' = "s_loop" /\ nsent' = nsent /\ stream' = stream)
     /\ (r_tick' # r_tick /\ r_last' = "eintr")
          => (r_pc' = "r_loop" /\ nrecv' = nrecv /\ r_buf' = r_buf /\ stream' = stream)]_vars

\* C20: with at most MaxInterrupts calls interrupted and every other call of send
\* and recv transferring bytes, reporting zero bytes or failing, a call of sendall
\* returns and a call of recvall returns.
C20_HelpersReturn ==
  /\ (s_pc = "s_loop") ~> (s_pc = "s_done")
  /\ (r_pc = "r_loop") ~> (r_pc = "r_done")

====
